---------------------------- MODULE Spec2Model ----------------------------
(***************************************************************************)
(* A state-machine model of 3DCNN.py: the top-to-bottom script that picks  *)
(* an execution strategy, loads the molecule records, builds the three     *)
(* feature modalities, scales them, trains the multi-branch model under    *)
(* three Keras callbacks and predicts.                                     *)
(*                                                                         *)
(* Units.  Validation losses are integers counted in units of 5e-5, so the *)
(* ReduceLROnPlateau default min_delta of 1e-4 is MinDelta = 2 units.      *)
(* Learning rates are integers counted in units of 1e-9 (0.001 is          *)
(* 1000000, 1e-6 is 1000); a multiplication by 0.7 is done in this fixed   *)
(* point, truncating.  Weights are named by the epoch that produced them   *)
(* (0: the freshly built model).  Scaled features are exact fractions      *)
(* [n, d].                                                                 *)
(***************************************************************************)
EXTENDS Integers, Sequences, FiniteSets, TLC

VARIABLES
    pc,                    \* the statement of the script that runs next
    tpu_fault,             \* environment: what TPU initialisation raises, if anything
    train_csv, test_csv,   \* environment: the Smiles columns of data/train.csv, data/test.csv
    val_curve,             \* environment: the family the validation losses are drawn from
    restore_on_train_end,  \* environment: the installed Keras restores best weights in on_train_end
    strategy,              \* tf.distribute strategy chosen at lines 12-20
    error,                 \* the uncaught exception that ended the script, or "none"
    train, test,           \* train['Smiles'], test['Smiles']
    train_rdkit_features, test_rdkit_features,
    scaler_rdkit,
    max_smiles_len,
    train_smiles_encoded, test_smiles_encoded,
    scaler_smiles,
    epoch,                 \* number of epochs model.fit has run
    val_loss,              \* logs['val_loss'] of the epoch whose callbacks are running
    weights,               \* model weights, named by the epoch that produced them
    lr,                    \* optimizer learning rate
    stop_training,         \* model.stop_training
    cb,                    \* index in callbacks of the callback that runs next
    checkpoint,            \* ModelCheckpoint state and the file best_model.keras
    reduce_lr,             \* ReduceLROnPlateau state
    early_stopping,        \* EarlyStopping state
    test_preds,            \* what model.predict used at line 205
    hist,                  \* observer: facts about the run so far that the properties refer to
    call                   \* one call of smiles_encoding made on its own

vars == <<pc, tpu_fault, train_csv, test_csv, val_curve, restore_on_train_end,
          strategy, error, train, test, train_rdkit_features, test_rdkit_features,
          scaler_rdkit, max_smiles_len, train_smiles_encoded, test_smiles_encoded,
          scaler_smiles, epoch, val_loss, weights, lr, stop_training, cb,
          checkpoint, reduce_lr, early_stopping, test_preds, hist, call>>

dataVars == <<strategy, error, train, test, train_rdkit_features, test_rdkit_features,
              scaler_rdkit, max_smiles_len, train_smiles_encoded, test_smiles_encoded,
              scaler_smiles>>

envVars == <<tpu_fault, train_csv, test_csv, val_curve, restore_on_train_end, call>>

fitVars == <<epoch, val_loss, weights, lr, stop_training, cb, checkpoint, reduce_lr,
             early_stopping, test_preds, hist>>

-----------------------------------------------------------------------------
(* Bounds of the model *)

\* Validation losses of the freely chosen part of a run are 0..MaxLoss.
MaxLoss == 3
\* Records in the training table and in the test table.
NumTrain == 2
NumTest == 1
\* Longest string handed to smiles_encoding when it is called on its own.
MaxCallLen == 2
\* Epochs of the scripted strictly improving start of the "descend" curve.
DescendLen == 976
\* Epochs of the scripted stepwise start of the "plateau" curve.
PlateauLen == 270
\* Strictly improving epochs of the "improve_then_flat" curve.
ImprovingLen == 5

(* Program constants *)

epochs == 1000
es_patience == 20
lr_patience == 10
cooldown == 0
\* ReduceLROnPlateau's min_delta (not passed at line 180: the Keras default, 1e-4)
MinDelta == 2
\* factor = 0.7
FactorNum == 7
FactorDen == 10
\* min_lr = 1e-6
MinLr == 1000
\* AdamW(learning_rate=0.001)
InitialLr == 1000000
NumDescriptors == 14

Min(a, b) == IF a < b THEN a ELSE b
Max(a, b) == IF a > b THEN a ELSE b

\* np.inf, the initial `best` of the three callbacks: above every loss a run can log.
Inf == MaxLoss + (MinDelta + 1) * (DescendLen + PlateauLen + 2) + MinDelta + 1

-----------------------------------------------------------------------------
(* Compute-backend selection, lines 12-20 *)

TpuSteps == {"TPUClusterResolver", "experimental_connect_to_cluster",
             "initialize_tpu_system", "TPUStrategy"}

\* Kinds of exception a step of the try block can raise.
TpuExceptions == {"ValueError", "NotFoundError", "RuntimeError"}

NoFault == [step |-> "none", exc |-> "none"]

TpuFaults == {NoFault} \cup [step : TpuSteps, exc : TpuExceptions]

\* The except clause of line 18: the exception types it catches.
Caught == {"ValueError"}

-----------------------------------------------------------------------------
(* Structure strings and the descriptor extractor, lines 92-113 *)

\* The structure strings the tables are filled from (a string is a sequence of
\* characters).  "C(" has an unclosed branch; "P" is an atom outside the vocabulary.
SmilesPool == { <<"C">>, <<"C", "N">>, <<"N", "P">>, <<"C", "(">>,
                <<"C", "C", "(", "=", "O", ")", "O">> }

AtomSymbols == {"C", "N", "O", "P", "S", "F", "I", "B"}

RECURSIVE BranchDepth(_, _)
\* Depth of open branches after reading s from depth d; -1 once a ")" closes nothing.
BranchDepth(s, d) ==
    IF d < 0 THEN -1
    ELSE IF s = <<>> THEN d
    ELSE BranchDepth(Tail(s), CASE Head(s) = "(" -> d + 1
                                [] Head(s) = ")" -> d - 1
                                [] OTHER -> d)

None == [ok |-> FALSE, smiles |-> <<>>]

\* Chem.MolFromSmiles: None (no exception) for a string it cannot parse.
MolFromSmiles(smiles) ==
    IF BranchDepth(smiles, 0) = 0 THEN [ok |-> TRUE, smiles |-> smiles] ELSE None

HeavyAtoms(mol) == Cardinality({i \in DOMAIN mol.smiles : mol.smiles[i] \in AtomSymbols})

\* The toolkit's descriptor functions, by name.  Their values are owned by the
\* toolkit; the stand-in is deterministic in (name, molecule) and tells the
\* fourteen descriptors of one molecule apart.
ToolkitCode(name) ==
    CASE name = "MolWt" -> 0
      [] name = "MolLogP" -> 1
      [] name = "CalcTPSA" -> 2
      [] name = "NumHDonors" -> 3
      [] name = "NumHAcceptors" -> 4
      [] name = "NumRotatableBonds" -> 5
      [] name = "CalcFractionCSP3" -> 6
      [] name = "MinPartialCharge" -> 7
      [] name = "MaxPartialCharge" -> 8
      [] name = "NumValenceElectrons" -> 9
      [] name = "BertzCT" -> 10
      [] name = "HallKierAlpha" -> 11
      [] name = "BalabanJ" -> 12
      [] name = "qed" -> 13

Descriptor(name, mol) == ToolkitCode(name) + NumDescriptors * HeavyAtoms(mol)

\* The toolkit calls of the `features` dict, in insertion order.
features ==
    << "MolWt", "MolLogP", "CalcTPSA", "NumHDonors", "NumHAcceptors",
       "NumRotatableBonds", "CalcFractionCSP3", "MinPartialCharge",
       "MaxPartialCharge", "NumValenceElectrons", "BertzCT", "HallKierAlpha",
       "BalabanJ", "qed" >>

\* A variant that fills in zeros for a string that does not parse.
calculate_rdkit_features_zero_fill(smiles) ==
    LET mol == MolFromSmiles(smiles)
    IN  [raised |-> FALSE,
         value |-> [k \in DOMAIN features |->
                       IF mol.ok THEN Descriptor(features[k], mol) ELSE 0]]

\* A descriptor function applied to None raises; nothing in the function catches it.
calculate_rdkit_features(smiles) ==
    LET mol == MolFromSmiles(smiles)
    IN  IF mol.ok
        THEN [raised |-> FALSE,
              value |-> [k \in DOMAIN features |-> Descriptor(features[k], mol)]]
        ELSE [raised |-> TRUE, value |-> <<>>]

-----------------------------------------------------------------------------
(* Character vocabulary and sequence encoder, lines 119-134 *)

\* A variant of the vocabulary in which "N" shares the integer of "C".
enc_collision ==
    ("l" :> 1) @@ ("y" :> 2) @@ ("@" :> 3) @@ ("3" :> 4) @@ ("H" :> 5) @@ ("S" :> 6) @@
    ("F" :> 7) @@ ("C" :> 8) @@ ("r" :> 9) @@ ("s" :> 10) @@ ("/" :> 11) @@ ("c" :> 12) @@
    ("o" :> 13) @@ ("+" :> 14) @@ ("I" :> 15) @@ ("5" :> 16) @@ ("(" :> 17) @@ ("2" :> 18) @@
    (")" :> 19) @@ ("9" :> 20) @@ ("i" :> 21) @@ ("#" :> 22) @@ ("6" :> 23) @@ ("8" :> 24) @@
    ("4" :> 25) @@ ("=" :> 26) @@ ("1" :> 27) @@ ("O" :> 28) @@ ("[" :> 29) @@ ("D" :> 30) @@
    ("B" :> 31) @@ ("]" :> 32) @@ ("N" :> 8) @@ ("7" :> 34) @@ ("n" :> 35) @@ ("-" :> 36)

\* The dict of lines 120-122.
enc ==
    ("l" :> 1) @@ ("y" :> 2) @@ ("@" :> 3) @@ ("3" :> 4) @@ ("H" :> 5) @@ ("S" :> 6) @@
    ("F" :> 7) @@ ("C" :> 8) @@ ("r" :> 9) @@ ("s" :> 10) @@ ("/" :> 11) @@ ("c" :> 12) @@
    ("o" :> 13) @@ ("+" :> 14) @@ ("I" :> 15) @@ ("5" :> 16) @@ ("(" :> 17) @@ ("2" :> 18) @@
    (")" :> 19) @@ ("9" :> 20) @@ ("i" :> 21) @@ ("#" :> 22) @@ ("6" :> 23) @@ ("8" :> 24) @@
    ("4" :> 25) @@ ("=" :> 26) @@ ("1" :> 27) @@ ("O" :> 28) @@ ("[" :> 29) @@ ("D" :> 30) @@
    ("B" :> 31) @@ ("]" :> 32) @@ ("N" :> 33) @@ ("7" :> 34) @@ ("n" :> 35) @@ ("-" :> 36)

\* dict.get(char, 0)
get(d, char) == IF char \in DOMAIN d THEN d[char] ELSE 0

Zeros(n) == [i \in 1..n |-> 0]

\* encoded[:max_len] for max_len >= 0
Slice(s, n) == SubSeq(s, 1, Min(n, Len(s)))

\* A variant that pads on the left.
smiles_encoding_left_pad(smiles, e, max_len) ==
    LET encoded == [i \in DOMAIN smiles |-> get(e, smiles[i])]
        padded == IF Len(encoded) < max_len
                  THEN Zeros(max_len - Len(encoded)) \o encoded
                  ELSE encoded
    IN  Slice(padded, max_len)

\* Lines 124-128
smiles_encoding(smiles, e, max_len) ==
    LET encoded == [i \in DOMAIN smiles |-> get(e, smiles[i])]
        padded == IF Len(encoded) < max_len
                  THEN encoded \o Zeros(max_len - Len(encoded))
                  ELSE encoded
    IN  Slice(padded, max_len)

SeqMax(s) == CHOOSE m \in {s[i] : i \in DOMAIN s} : \A i \in DOMAIN s : s[i] <= m

Lengths(column) == [i \in DOMAIN column |-> Len(column[i])]

\* Line 119: the longest string of either table.
max_len_of(train_smiles, test_smiles) ==
    Max(SeqMax(Lengths(train_smiles)), SeqMax(Lengths(test_smiles)))

-----------------------------------------------------------------------------
(* MinMaxScaler, lines 115-117 and 136-138 *)

Frac(n, d) == [n |-> n, d |-> d]

ColMin(X) == [j \in DOMAIN X[1] |->
                 CHOOSE m \in {X[i][j] : i \in DOMAIN X} : \A i \in DOMAIN X : m <= X[i][j]]

ColMax(X) == [j \in DOMAIN X[1] |->
                 CHOOSE m \in {X[i][j] : i \in DOMAIN X} : \A i \in DOMAIN X : X[i][j] <= m]

\* A MinMaxScaler() as constructed; `calls` is the list of the methods run on it.
MinMaxScaler == [fitted |-> FALSE, data_min |-> <<>>, data_max |-> <<>>, calls |-> <<>>]

fit(self, X) ==
    [fitted |-> TRUE, data_min |-> ColMin(X), data_max |-> ColMax(X),
     calls |-> Append(self.calls, "fit")]

\* data_range with zeros replaced by 1 (_handle_zeros_in_scale)
Range(self, j) ==
    IF self.data_max[j] = self.data_min[j] THEN 1 ELSE self.data_max[j] - self.data_min[j]

\* (x - data_min) / data_range, column by column
transform(self, X) ==
    [i \in DOMAIN X |-> [j \in DOMAIN X[i] |-> Frac(X[i][j] - self.data_min[j], Range(self, j))]]

\* scaler.fit_transform(X): the scaler afterwards and the matrix returned.
fit_transform_call(self, X) ==
    LET fitted == fit(self, X)
    IN  [self |-> [fitted EXCEPT !.calls = Append(@, "transform")],
         raised |-> FALSE,
         out |-> transform(fitted, X)]

\* Variant: the scaler is fit again on the matrix it is asked to transform.
transform_call_refit(self, X) ==
    LET refitted == fit(self, X)
    IN  [self |-> [refitted EXCEPT !.calls = Append(@, "transform")],
         raised |-> FALSE,
         out |-> transform(refitted, X)]

\* scaler.transform(X): raises NotFittedError on a scaler that was never fit.
transform_call(self, X) ==
    IF self.fitted
    THEN [self |-> [self EXCEPT !.calls = Append(@, "transform")],
          raised |-> FALSE,
          out |-> transform(self, X)]
    ELSE [self |-> self, raised |-> TRUE, out |-> <<>>]


-----------------------------------------------------------------------------
(* Validation losses: the input of the training loop *)

ValCurves == {"free", "descend", "plateau", "improve_then_flat"}

\* The losses epoch e (1-based) may log.  "free": any loss of 0..MaxLoss at every
\* epoch.  "descend": DescendLen epochs that each improve by more than min_delta,
\* then free.  "plateau": PlateauLen epochs that lose one unit every lr_patience
\* epochs, then free.  Both scripted starts stay above the free losses.
\* "improve_then_flat": ImprovingLen epochs that each improve, then the same loss
\* at every epoch.
ValLosses(curve, e) ==
    CASE curve = "improve_then_flat" ->
             {MaxLoss + 1 + Max(ImprovingLen - e, 0)}
      [] curve = "descend" /\ e <= DescendLen ->
             {MaxLoss + (MinDelta + 1) * (DescendLen - e + 1)}
      [] curve = "plateau" /\ e <= PlateauLen ->
             {MaxLoss + 1 + (PlateauLen - e) \div lr_patience}
      [] OTHER -> 0..MaxLoss

-----------------------------------------------------------------------------
(* The callbacks, lines 180-187 *)

\* A variant of the list with the decay callback first.
callbacks_decay_first == <<"ReduceLROnPlateau", "ModelCheckpoint", "EarlyStopping">>

\* The list handed to model.fit; on_epoch_end runs its members in list order.
callbacks == <<"ModelCheckpoint", "ReduceLROnPlateau", "EarlyStopping">>

\* EarlyStopping.best_weights before the first epoch (None)
NoWeights == -1

\* A variant that also takes a tie for an improvement.
checkpoint_or_equal(current, best) == current <= best

\* ModelCheckpoint(mode='min'): monitor_op is np.less
checkpoint_monitor_op(current, best) == current < best

\* ReduceLROnPlateau, mode 'auto' on a loss: np.less(a, b - min_delta)
reduce_monitor_op(a, b) == a < b - MinDelta

\* A variant without the floor.
reduced_unfloored(old_lr) == (old_lr * FactorNum) \div FactorDen

\* new_lr = max(old_lr * factor, min_lr)
reduced(old_lr) == Max((old_lr * FactorNum) \div FactorDen, MinLr)

\* A variant that also takes a tie for an improvement.
es_or_equal(current, best) == current <= best

\* EarlyStopping, min_delta 0, mode 'auto' on a loss: np.less(current - 0, best)
es_is_improvement(current, best) == current < best

\* Callback state set by the constructors and again by on_train_begin.
CheckpointInit == [best |-> Inf, file |-> [exists |-> FALSE, weights |-> 0, lr |-> 0]]
ReduceInit == [best |-> Inf, wait |-> 0, cooldown_counter |-> 0]
StoppingInit == [best |-> Inf, wait |-> 0, best_weights |-> NoWeights, best_epoch |-> 0,
                 stopped_epoch |-> 0]

HistInit == [min_now |-> Inf, prev_min |-> Inf, first_min_epoch |-> 0,
             ref |-> Inf, ref_epoch |-> 0,
             last_reduce_epoch |-> 0, prev_reduce_epoch |-> 0,
             lr_before |-> 0, called |-> <<>>, saved |-> FALSE, streak |-> 0]

-----------------------------------------------------------------------------
(* Initial states *)

IdleCall == [smiles |-> <<>>, max_len |-> 0, done |-> TRUE, result |-> <<>>]

ScriptStart ==
    /\ pc = "strategy"
    /\ strategy = "unset"
    /\ error = "none"
    /\ train = <<>> /\ test = <<>>
    /\ train_rdkit_features = <<>> /\ test_rdkit_features = <<>>
    /\ scaler_rdkit = MinMaxScaler /\ scaler_smiles = MinMaxScaler
    /\ max_smiles_len = 0
    /\ train_smiles_encoded = <<>> /\ test_smiles_encoded = <<>>
    /\ epoch = 0 /\ val_loss = 0 /\ weights = 0 /\ lr = 0
    /\ stop_training = FALSE /\ cb = 0
    /\ checkpoint = CheckpointInit
    /\ reduce_lr = ReduceInit
    /\ early_stopping = StoppingInit
    /\ test_preds = NoWeights
    /\ hist = HistInit

Init ==
    /\ tpu_fault \in TpuFaults
    /\ train_csv \in [1..NumTrain -> SmilesPool]
    /\ test_csv \in [1..NumTest -> SmilesPool]
    /\ val_curve \in ValCurves
    /\ restore_on_train_end \in BOOLEAN
    /\ call = IdleCall
    /\ ScriptStart

-----------------------------------------------------------------------------
(* The script, statement by statement *)

Abort(exc) == pc' = "aborted" /\ error' = exc

\* Lines 12-20: the try block and its except ValueError clause.
InitStrategy ==
    /\ pc = "strategy"
    /\ IF tpu_fault = NoFault
       THEN strategy' = "TPUStrategy" /\ pc' = "load" /\ error' = error
       ELSE IF tpu_fault.exc \in Caught
       THEN strategy' = "default" /\ pc' = "load" /\ error' = error
       ELSE strategy' = strategy /\ Abort(tpu_fault.exc)
    /\ UNCHANGED <<train, test, train_rdkit_features, test_rdkit_features, scaler_rdkit,
                   max_smiles_len, train_smiles_encoded, test_smiles_encoded,
                   scaler_smiles>>
    /\ UNCHANGED envVars /\ UNCHANGED fitVars

\* Lines 84-85: the two tables.
LoadData ==
    /\ pc = "load"
    /\ train' = train_csv
    /\ test' = test_csv
    /\ pc' = "rdkit_train"
    /\ UNCHANGED <<strategy, error, train_rdkit_features, test_rdkit_features,
                   scaler_rdkit, max_smiles_len, train_smiles_encoded,
                   test_smiles_encoded, scaler_smiles>>
    /\ UNCHANGED envVars /\ UNCHANGED fitVars

\* The list comprehension of lines 112 and 113 over one table.
RdkitMatrix(column) ==
    LET rows == [i \in DOMAIN column |-> calculate_rdkit_features(column[i])]
    IN  IF \E i \in DOMAIN rows : rows[i].raised
        THEN [raised |-> TRUE, value |-> <<>>]
        ELSE [raised |-> FALSE, value |-> [i \in DOMAIN rows |-> rows[i].value]]

\* Line 112
RdkitTrain ==
    /\ pc = "rdkit_train"
    /\ LET m == RdkitMatrix(train)
       IN  IF m.raised
           THEN Abort("ArgumentError") /\ train_rdkit_features' = train_rdkit_features
           ELSE train_rdkit_features' = m.value /\ pc' = "rdkit_test" /\ error' = error
    /\ UNCHANGED <<strategy, train, test, test_rdkit_features, scaler_rdkit,
                   max_smiles_len, train_smiles_encoded, test_smiles_encoded,
                   scaler_smiles>>
    /\ UNCHANGED envVars /\ UNCHANGED fitVars

\* Line 113
RdkitTest ==
    /\ pc = "rdkit_test"
    /\ LET m == RdkitMatrix(test)
       IN  IF m.raised
           THEN Abort("ArgumentError") /\ test_rdkit_features' = test_rdkit_features
           ELSE test_rdkit_features' = m.value /\ pc' = "scale_rdkit_train" /\ error' = error
    /\ UNCHANGED <<strategy, train, test, train_rdkit_features, scaler_rdkit,
                   max_smiles_len, train_smiles_encoded, test_smiles_encoded,
                   scaler_smiles>>
    /\ UNCHANGED envVars /\ UNCHANGED fitVars

\* Lines 115-116
ScaleRdkitTrain ==
    /\ pc = "scale_rdkit_train"
    /\ LET r == fit_transform_call(MinMaxScaler, train_rdkit_features)
       IN  /\ scaler_rdkit' = r.self
           /\ train_rdkit_features' = r.out
    /\ pc' = "scale_rdkit_test"
    /\ UNCHANGED <<strategy, error, train, test, test_rdkit_features, max_smiles_len,
                   train_smiles_encoded, test_smiles_encoded, scaler_smiles>>
    /\ UNCHANGED envVars /\ UNCHANGED fitVars

\* Line 117
ScaleRdkitTest ==
    /\ pc = "scale_rdkit_test"
    /\ LET r == transform_call(scaler_rdkit, test_rdkit_features)
       IN  IF r.raised
           THEN /\ Abort("NotFittedError")
                /\ UNCHANGED <<scaler_rdkit, test_rdkit_features>>
           ELSE /\ scaler_rdkit' = r.self
                /\ test_rdkit_features' = r.out
                /\ pc' = "max_smiles_len"
                /\ error' = error
    /\ UNCHANGED <<strategy, train, test, train_rdkit_features, max_smiles_len,
                   train_smiles_encoded, test_smiles_encoded, scaler_smiles>>
    /\ UNCHANGED envVars /\ UNCHANGED fitVars

\* Line 119
MaxSmilesLen ==
    /\ pc = "max_smiles_len"
    /\ max_smiles_len' = max_len_of(train, test)
    /\ pc' = "encode"
    /\ UNCHANGED <<strategy, error, train, test, train_rdkit_features,
                   test_rdkit_features, scaler_rdkit, train_smiles_encoded,
                   test_smiles_encoded, scaler_smiles>>
    /\ UNCHANGED envVars /\ UNCHANGED fitVars

\* Lines 130-134: both tables, with the default max_len = max_smiles_len.
EncodeSmiles ==
    /\ pc = "encode"
    /\ train_smiles_encoded' =
           [i \in DOMAIN train |-> smiles_encoding(train[i], enc, max_smiles_len)]
    /\ test_smiles_encoded' =
           [i \in DOMAIN test |-> smiles_encoding(test[i], enc, max_smiles_len)]
    /\ pc' = "scale_smiles_train"
    /\ UNCHANGED <<strategy, error, train, test, train_rdkit_features,
                   test_rdkit_features, scaler_rdkit, max_smiles_len, scaler_smiles>>
    /\ UNCHANGED envVars /\ UNCHANGED fitVars

\* Lines 136-137
ScaleSmilesTrain ==
    /\ pc = "scale_smiles_train"
    /\ LET r == fit_transform_call(MinMaxScaler, train_smiles_encoded)
       IN  /\ scaler_smiles' = r.self
           /\ train_smiles_encoded' = r.out
    /\ pc' = "scale_smiles_test"
    /\ UNCHANGED <<strategy, error, train, test, train_rdkit_features,
                   test_rdkit_features, scaler_rdkit, max_smiles_len,
                   test_smiles_encoded>>
    /\ UNCHANGED envVars /\ UNCHANGED fitVars

\* Line 138
ScaleSmilesTest ==
    /\ pc = "scale_smiles_test"
    /\ LET r == transform_call(scaler_smiles, test_smiles_encoded)
       IN  IF r.raised
           THEN /\ Abort("NotFittedError")
                /\ UNCHANGED <<scaler_smiles, test_smiles_encoded>>
           ELSE /\ scaler_smiles' = r.self
                /\ test_smiles_encoded' = r.out
                /\ pc' = "build"
                /\ error' = error
    /\ UNCHANGED <<strategy, train, test, train_rdkit_features, test_rdkit_features,
                   scaler_rdkit, max_smiles_len, train_smiles_encoded>>
    /\ UNCHANGED envVars /\ UNCHANGED fitVars


-----------------------------------------------------------------------------
(* Training, lines 189-208 *)

\* Lines 189-190: cnn_model builds and compiles the model with AdamW(0.001).
BuildModel ==
    /\ pc = "build"
    /\ weights' = 0
    /\ lr' = InitialLr
    /\ pc' = "fit_begin"
    /\ UNCHANGED <<epoch, val_loss, stop_training, cb, checkpoint, reduce_lr,
                   early_stopping, test_preds, hist>>
    /\ UNCHANGED envVars /\ UNCHANGED dataVars

\* Line 193, entry of model.fit: on_train_begin of every callback.
OnTrainBegin ==
    /\ pc = "fit_begin"
    /\ epoch' = 0
    /\ stop_training' = FALSE
    /\ reduce_lr' = ReduceInit
    /\ early_stopping' = StoppingInit
    /\ hist' = [HistInit EXCEPT !.lr_before = lr]
    /\ pc' = "fit"
    /\ UNCHANGED <<val_loss, weights, lr, cb, checkpoint, test_preds>>
    /\ UNCHANGED envVars /\ UNCHANGED dataVars

\* One epoch of the loop of model.fit: the weights are updated and the epoch's
\* validation loss is logged.  The observer notes the running minimum of the
\* losses, the first epoch that reached it, the last loss that fell more than
\* min_delta below the one noted before it, and how many epochs from the first on
\* each improved on all before it.
RunEpoch ==
    /\ pc = "fit"
    /\ epoch < epochs
    /\ ~stop_training
    /\ \E loss \in ValLosses(val_curve, epoch + 1) :
          /\ val_loss' = loss
          /\ hist' = [hist EXCEPT
                 !.prev_min = hist.min_now,
                 !.min_now = Min(hist.min_now, loss),
                 !.first_min_epoch = IF loss < hist.min_now THEN epoch + 1 ELSE @,
                 !.ref = IF loss < hist.ref - MinDelta THEN loss ELSE @,
                 !.ref_epoch = IF loss < hist.ref - MinDelta THEN epoch + 1 ELSE @,
                 !.prev_reduce_epoch = hist.last_reduce_epoch,
                 !.lr_before = lr,
                 !.called = <<>>,
                 !.saved = FALSE,
                 !.streak = IF hist.streak = epoch /\ loss < hist.min_now
                            THEN epoch + 1 ELSE @]
    /\ epoch' = epoch + 1
    /\ weights' = epoch + 1
    /\ cb' = 1
    /\ pc' = "on_epoch_end"
    /\ UNCHANGED <<lr, stop_training, checkpoint, reduce_lr, early_stopping, test_preds>>
    /\ UNCHANGED envVars /\ UNCHANGED dataVars

\* CallbackList.on_epoch_end moves to the next callback of the list; after the
\* last one the loop of model.fit leaves when stop_training is set or the epochs
\* are used up.
Advance(stop) ==
    IF cb < Len(callbacks)
    THEN cb' = cb + 1 /\ pc' = "on_epoch_end" /\ val_loss' = val_loss
    ELSE /\ cb' = 0
         /\ val_loss' = 0
         /\ pc' = IF stop \/ epoch >= epochs THEN "on_train_end" ELSE "fit"

\* ModelCheckpoint('best_model.keras', save_best_only=True).on_epoch_end
CheckpointOnEpochEnd ==
    /\ pc = "on_epoch_end"
    /\ callbacks[cb] = "ModelCheckpoint"
    /\ IF checkpoint_monitor_op(val_loss, checkpoint.best)
       THEN /\ checkpoint' = [best |-> val_loss,
                              file |-> [exists |-> TRUE, weights |-> weights, lr |-> lr]]
            /\ hist' = [hist EXCEPT !.called = Append(@, "ModelCheckpoint"),
                                    !.saved = TRUE]
       ELSE /\ checkpoint' = checkpoint
            /\ hist' = [hist EXCEPT !.called = Append(@, "ModelCheckpoint")]
    /\ Advance(stop_training)
    /\ UNCHANGED <<epoch, weights, lr, stop_training, reduce_lr, early_stopping,
                   test_preds>>
    /\ UNCHANGED envVars /\ UNCHANGED dataVars

\* ReduceLROnPlateau(factor=0.7, patience=10, min_lr=1e-6).on_epoch_end
ReduceLROnEpochEnd ==
    /\ pc = "on_epoch_end"
    /\ callbacks[cb] = "ReduceLROnPlateau"
    /\ LET in_cooldown == reduce_lr.cooldown_counter > 0
           cooled == IF in_cooldown
                     THEN [reduce_lr EXCEPT !.cooldown_counter = @ - 1, !.wait = 0]
                     ELSE reduce_lr
           still_cooling == cooled.cooldown_counter > 0
           wait == cooled.wait + 1
       IN  IF reduce_monitor_op(val_loss, cooled.best)
           THEN /\ reduce_lr' = [cooled EXCEPT !.best = val_loss, !.wait = 0]
                /\ lr' = lr
                /\ hist' = [hist EXCEPT !.called = Append(@, "ReduceLROnPlateau")]
           ELSE IF still_cooling
           THEN /\ reduce_lr' = cooled
                /\ lr' = lr
                /\ hist' = [hist EXCEPT !.called = Append(@, "ReduceLROnPlateau")]
           ELSE IF wait >= lr_patience /\ lr > MinLr
           THEN /\ lr' = reduced(lr)
                /\ reduce_lr' = [cooled EXCEPT !.cooldown_counter = cooldown, !.wait = 0]
                /\ hist' = [hist EXCEPT !.called = Append(@, "ReduceLROnPlateau"),
                                        !.last_reduce_epoch = epoch]
           ELSE /\ reduce_lr' = [cooled EXCEPT !.wait = wait]
                /\ lr' = lr
                /\ hist' = [hist EXCEPT !.called = Append(@, "ReduceLROnPlateau")]
    /\ Advance(stop_training)
    /\ UNCHANGED <<epoch, weights, stop_training, checkpoint, early_stopping, test_preds>>
    /\ UNCHANGED envVars /\ UNCHANGED dataVars

\* EarlyStopping(patience=20, restore_best_weights=True).on_epoch_end.  Keras
\* counts epochs from 0: its `epoch` argument is epoch - 1.  A Keras that does
\* not restore in on_train_end restores here, when it stops the run.
EarlyStoppingOnEpochEnd ==
    /\ pc = "on_epoch_end"
    /\ callbacks[cb] = "EarlyStopping"
    /\ LET kept == IF early_stopping.best_weights = NoWeights
                   THEN weights ELSE early_stopping.best_weights
           wait == early_stopping.wait + 1
       IN  IF es_is_improvement(val_loss, early_stopping.best)
           THEN /\ early_stopping' = [early_stopping EXCEPT
                       !.best = val_loss, !.best_epoch = epoch - 1,
                       !.best_weights = weights, !.wait = 0]
                /\ UNCHANGED <<stop_training, weights>>
                /\ Advance(stop_training)
           ELSE IF wait >= es_patience /\ epoch - 1 > 0
           THEN /\ early_stopping' = [early_stopping EXCEPT
                       !.wait = wait, !.best_weights = kept, !.stopped_epoch = epoch - 1]
                /\ stop_training' = TRUE
                /\ weights' = IF restore_on_train_end THEN weights ELSE kept
                /\ Advance(TRUE)
           ELSE /\ early_stopping' = [early_stopping EXCEPT
                       !.wait = wait, !.best_weights = kept]
                /\ UNCHANGED <<stop_training, weights>>
                /\ Advance(stop_training)
    /\ hist' = [hist EXCEPT !.called = Append(@, "EarlyStopping")]
    /\ UNCHANGED <<epoch, lr, checkpoint, reduce_lr, test_preds>>
    /\ UNCHANGED envVars /\ UNCHANGED dataVars

\* Exit of model.fit: on_train_end of every callback.  Only EarlyStopping acts,
\* and only in a Keras whose on_train_end restores the best weights.
OnTrainEnd ==
    /\ pc = "on_train_end"
    /\ weights' = IF restore_on_train_end /\ early_stopping.best_weights # NoWeights
                  THEN early_stopping.best_weights
                  ELSE weights
    /\ pc' = "predict"
    /\ UNCHANGED <<epoch, val_loss, lr, stop_training, cb, checkpoint, reduce_lr,
                   early_stopping, test_preds, hist>>
    /\ UNCHANGED envVars /\ UNCHANGED dataVars

\* Lines 202-208: evaluate, predict with the weights the model now has, write the
\* submission.
Predict ==
    /\ pc = "predict"
    /\ test_preds' = weights
    /\ pc' = "done"
    /\ UNCHANGED <<epoch, val_loss, weights, lr, stop_training, cb, checkpoint,
                   reduce_lr, early_stopping, hist>>
    /\ UNCHANGED envVars /\ UNCHANGED dataVars

-----------------------------------------------------------------------------
(* smiles_encoding called on its own, with any target length *)

CallAlphabet == {"C", "N", "(", "P"}

CallStrings == UNION {[1..n -> CallAlphabet] : n \in 0..MaxCallLen}

CallSmilesEncoding ==
    /\ ~call.done
    /\ call' = [call EXCEPT !.done = TRUE,
                            !.result = smiles_encoding(call.smiles, enc, call.max_len)]
    /\ UNCHANGED <<pc, tpu_fault, train_csv, test_csv, val_curve, restore_on_train_end>>
    /\ UNCHANGED dataVars /\ UNCHANGED fitVars

-----------------------------------------------------------------------------
(* Specifications *)

NextData ==
    \/ InitStrategy
    \/ LoadData
    \/ RdkitTrain
    \/ RdkitTest
    \/ ScaleRdkitTrain
    \/ ScaleRdkitTest
    \/ MaxSmilesLen
    \/ EncodeSmiles
    \/ ScaleSmilesTrain
    \/ ScaleSmilesTest

NextFit ==
    \/ BuildModel
    \/ OnTrainBegin
    \/ RunEpoch
    \/ CheckpointOnEpochEnd
    \/ ReduceLROnEpochEnd
    \/ EarlyStoppingOnEpochEnd
    \/ OnTrainEnd
    \/ Predict

Next == NextData \/ NextFit

\* The whole script on every environment.
Spec == Init /\ [][Next]_vars


\* The whole script on one pair of tables, on every validation curve and on both
\* kinds of Keras.
TrainTable == [i \in 1..NumTrain |-> IF i = 1 THEN <<"C">> ELSE <<"C", "N">>]
TestTable == [i \in 1..NumTest |-> <<"N", "P">>]

InitTrain == Init /\ tpu_fault = NoFault /\ train_csv = TrainTable /\ test_csv = TestTable

SpecTrain == InitTrain /\ [][Next]_vars

\* One call of smiles_encoding on every string and target length of the bounds.
InitCall ==
    /\ tpu_fault = NoFault
    /\ train_csv = TrainTable
    /\ test_csv = TestTable
    /\ val_curve = "free"
    /\ restore_on_train_end = TRUE
    /\ call \in [smiles : CallStrings, max_len : 0..(MaxCallLen + 1),
                 done : {FALSE}, result : {<<>>}]
    /\ ScriptStart

\* The script up to the call of model.fit, on every pair of tables and every TPU
\* fault, together with the calls of smiles_encoding on their own.
InitData == (Init /\ val_curve = "free" /\ restore_on_train_end) \/ InitCall

SpecData == InitData /\ [][NextData \/ CallSmilesEncoding]_vars



-----------------------------------------------------------------------------
(* Properties of the training controller, checked under SpecTrain *)

\* model.fit has returned (or is in on_train_end).
FitEnded == pc \in {"on_train_end", "predict", "done"}

\* model.fit has returned: on_train_end is over.
FitReturned == pc \in {"predict", "done"}

\* The epoch is over and the next statement is outside the callbacks.
EpochBoundary == pc \in {"fit", "on_train_end", "predict", "done"} /\ epoch >= 1

\* Epochs, up to the last one run, since the validation loss last fell below
\* every loss before it.
SinceImproved == epoch - hist.first_min_epoch

Ran(name) == \E i \in DOMAIN hist.called : hist.called[i] = name

IsPrefix(s, t) == Len(s) <= Len(t) /\ \A i \in DOMAIN s : s[i] = t[i]

\* C1 as stated: training always ends at the first epoch at which the
\* validation loss has not improved for 20 consecutive epochs, and the weights
\* after training are always those of the epoch with the best validation loss.
C1_StopsAfterPatienceWithBestWeights ==
    /\ (pc = "fit" /\ epoch >= 1) => SinceImproved < es_patience
    /\ FitEnded => SinceImproved = es_patience
    /\ FitReturned => weights = hist.first_min_epoch

\* C1, amended: another epoch is run only while fewer than 20 epochs have passed
\* without improvement; training ends at the first epoch at which the validation
\* loss has not improved for 20 consecutive epochs, or after epoch 1000 when no
\* such epoch comes earlier; when early stopping ended the run the weights after
\* training are those of the first epoch with the best validation loss; when the
\* 1000 epochs were used up without a stop they are those of that epoch or of
\* the final epoch; after k strictly improving epochs followed by epochs that
\* never improve, training stops at epoch k + 20 with the weights of epoch k
\* (k = 5: epoch 25, weights of epoch 5); the predictions use these weights.
C1_EarlyStoppingContract ==
    /\ (pc = "fit" /\ epoch >= 1) => SinceImproved < es_patience /\ ~stop_training
    /\ FitEnded =>
          \/ stop_training /\ SinceImproved = es_patience
          \/ ~stop_training /\ epoch = epochs /\ SinceImproved < es_patience
    /\ (FitReturned /\ stop_training) => weights = hist.first_min_epoch
    /\ (FitReturned /\ ~stop_training) => weights \in {hist.first_min_epoch, epoch}
    /\ (FitReturned /\ hist.streak = hist.first_min_epoch /\ hist.streak + es_patience <= epochs) =>
          /\ epoch = hist.streak + es_patience
          /\ weights = hist.streak
    /\ pc = "done" => test_preds = weights

\* C1 witness: five strictly improving epochs, then twenty without improvement;
\* training was stopped at epoch 25 and the model holds the weights of epoch 5.
C1_Witness ==
    /\ pc = "done"
    /\ hist.streak = 5 /\ hist.first_min_epoch = 5
    /\ epoch = 25 /\ stop_training
    /\ weights = 5 /\ test_preds = 5

\* C2: at every epoch the checkpoint callback writes best_model.keras if and
\* only if the epoch's validation loss is strictly lower than the loss of every
\* earlier epoch (a tie never writes), so at every epoch boundary the file holds
\* the weights of the first epoch that reached the minimum so far; before the
\* first epoch there is no file.
C2_CheckpointOnStrictImprovementOnly ==
    /\ Ran("ModelCheckpoint") => (hist.saved <=> hist.min_now < hist.prev_min)
    /\ ~Ran("ModelCheckpoint") => ~hist.saved
    /\ EpochBoundary =>
          /\ checkpoint.file.exists
          /\ checkpoint.file.weights = hist.first_min_epoch
          /\ checkpoint.best = hist.min_now
    /\ epoch = 0 => ~checkpoint.file.exists

\* C2 witness: an epoch whose loss ties the best so far has been through the
\* checkpoint callback and the file still holds the earlier epoch's weights.
C2_Witness ==
    /\ pc = "on_epoch_end" /\ Ran("ModelCheckpoint")
    /\ epoch >= 2
    /\ val_loss = hist.prev_min
    /\ ~hist.saved
    /\ checkpoint.file.weights < epoch

\* The decay callback has run for the current epoch.
DecayChecked == epoch >= 1 /\ (Ran("ReduceLROnPlateau") \/ pc # "on_epoch_end")

\* C3 as stated: the rate is reduced at an epoch exactly when the validation
\* loss has not improved for 10 consecutive epochs (reduced only if none of the
\* last 10 epochs set a new minimum, and reduced whenever the tenth epoch in a
\* row without a new minimum ends with the rate above the floor), the reduction
\* is by 0.7 floored at 1e-6, and the rate never rises nor falls below 1e-6.
C3_DecayWhenNoImprovementFor10 ==
    DecayChecked =>
       /\ lr # hist.lr_before => SinceImproved >= lr_patience
       /\ (SinceImproved = lr_patience /\ hist.lr_before > MinLr) => lr # hist.lr_before
       /\ lr # hist.lr_before => lr = Max((hist.lr_before * FactorNum) \div FactorDen, MinLr)
       /\ MinLr <= lr /\ lr <= hist.lr_before

\* Epochs since the decay policy last restarted its count: since the later of the
\* last loss that fell more than min_delta below the policy's reference loss and
\* the last reduction before this epoch.
SinceDecayRestart == epoch - Max(hist.ref_epoch, hist.prev_reduce_epoch)

\* C3, amended: the rate is multiplied by 0.7, the result floored at 1e-6, at
\* exactly the epochs that end with the rate above 1e-6 and with 10 epochs passed
\* since the later of (a) the last epoch whose validation loss was more than
\* 1e-4 below the policy's reference loss and (b) the last reduction; it is
\* unchanged at every other epoch, so it never rises, never falls below 1e-6 and
\* starts at 0.001.
C3_DecayContract ==
    /\ DecayChecked =>
          /\ lr # hist.lr_before <=>
                (hist.lr_before > MinLr /\ SinceDecayRestart >= lr_patience)
          /\ hist.lr_before > MinLr => SinceDecayRestart <= lr_patience
          /\ lr # hist.lr_before =>
                lr = Max((hist.lr_before * FactorNum) \div FactorDen, MinLr)
          /\ MinLr <= lr /\ lr <= hist.lr_before /\ hist.lr_before <= InitialLr
    /\ (pc = "on_epoch_end" /\ ~Ran("ReduceLROnPlateau")) => lr = hist.lr_before
    /\ (pc \in {"fit_begin", "fit"} /\ epoch = 0) => lr = InitialLr

\* C3 witness: a reduction has just been cut off at the floor: 0.7 times the
\* rate before it is below 1e-6.
C3_Witness ==
    /\ DecayChecked
    /\ lr = MinLr
    /\ hist.lr_before > MinLr
    /\ (hist.lr_before * FactorNum) \div FactorDen < MinLr

\* C4 as stated: at the end of every epoch the policies are evaluated in the
\* order decay, checkpoint, stop.
C4_DecayThenCheckpointThenStop ==
    /\ IsPrefix(hist.called, <<"ReduceLROnPlateau", "ModelCheckpoint", "EarlyStopping">>)
    /\ EpochBoundary =>
          hist.called = <<"ReduceLROnPlateau", "ModelCheckpoint", "EarlyStopping">>

\* C4, amended: at the end of every epoch the policies are evaluated in the
\* order checkpoint, decay, stop; the checkpoint written in an epoch holds the
\* learning rate from before that epoch's decay check; and the model's weights
\* are replaced by restored ones only after the epoch's checkpoint check.
C4_CheckpointThenDecayThenStop ==
    /\ IsPrefix(hist.called, <<"ModelCheckpoint", "ReduceLROnPlateau", "EarlyStopping">>)
    /\ EpochBoundary =>
          hist.called = <<"ModelCheckpoint", "ReduceLROnPlateau", "EarlyStopping">>
    /\ (epoch >= 1 /\ hist.saved) => checkpoint.file.lr = hist.lr_before
    /\ (epoch >= 1 /\ weights # epoch) =>
          /\ Ran("ModelCheckpoint")
          /\ Ran("EarlyStopping")
          /\ checkpoint.file.weights = weights

\* C4 witness: an epoch in which the checkpoint was written and then the rate
\* was reduced, all three callbacks done.
C4_Witness ==
    /\ epoch >= 1
    /\ hist.called = <<"ModelCheckpoint", "ReduceLROnPlateau", "EarlyStopping">>
    /\ hist.saved
    /\ lr < hist.lr_before
    /\ checkpoint.file.lr = hist.lr_before


-----------------------------------------------------------------------------
(* Properties of the feature pipeline, checked under SpecData *)

Parses(smiles) == MolFromSmiles(smiles).ok

\* The integer the vocabulary gives a character, 0 for a character outside it.
VocabularyInteger(char) == IF char \in DOMAIN enc THEN enc[char] ELSE 0

\* The inverse of the vocabulary.
decode(v) == CHOOSE char \in DOMAIN enc : enc[char] = v

\* What position j of the encoding of a string holds, by the specification.
Expected(smiles, j) == IF j <= Len(smiles) THEN VocabularyInteger(smiles[j]) ELSE 0

\* The matrices the scalers are meant to be fit on and applied to.
RawRdkit(column) == [i \in DOMAIN column |->
                        [k \in 1..NumDescriptors |->
                            Descriptor(features[k], MolFromSmiles(column[i]))]]

RawEncoded(column) == [i \in DOMAIN column |->
                          [j \in 1..max_smiles_len |-> Expected(column[i], j)]]

Scaled(X, lo, hi) ==
    [i \in DOMAIN X |->
        [j \in DOMAIN X[i] |->
            Frac(X[i][j] - lo[j], IF hi[j] = lo[j] THEN 1 ELSE hi[j] - lo[j])]]

AfterRdkitScaling == pc \in {"max_smiles_len", "encode", "scale_smiles_train",
                             "scale_smiles_test", "build"}

\* C5: each of the two scalers is fit exactly once, on the training matrix,
\* before any transform; no transform is applied by an unfitted scaler; the
\* fitted minima and maxima are at every later point the column minima and maxima
\* of the training matrix, so they never change and the test data never enters
\* them; the test matrix is transformed with these training parameters.
C5_ScalersFitOnceOnTrainOnly ==
    /\ IsPrefix(scaler_rdkit.calls, <<"fit", "transform", "transform">>)
    /\ IsPrefix(scaler_smiles.calls, <<"fit", "transform", "transform">>)
    /\ error # "NotFittedError"
    /\ scaler_rdkit.fitted =>
          /\ scaler_rdkit.data_min = ColMin(RawRdkit(train))
          /\ scaler_rdkit.data_max = ColMax(RawRdkit(train))
    /\ scaler_smiles.fitted =>
          /\ scaler_smiles.data_min = ColMin(RawEncoded(train))
          /\ scaler_smiles.data_max = ColMax(RawEncoded(train))
    /\ AfterRdkitScaling =>
          /\ scaler_rdkit.calls = <<"fit", "transform", "transform">>
          /\ test_rdkit_features =
                Scaled(RawRdkit(test), ColMin(RawRdkit(train)), ColMax(RawRdkit(train)))
    /\ pc = "build" =>
          /\ scaler_smiles.calls = <<"fit", "transform", "transform">>
          /\ test_smiles_encoded =
                Scaled(RawEncoded(test), ColMin(RawEncoded(train)), ColMax(RawEncoded(train)))

\* C5 witness: both scalers have transformed the test matrix, and a test value
\* lies outside [0, 1]: the range is the training data's alone.
C5_Witness ==
    /\ pc = "build"
    /\ scaler_rdkit.calls = <<"fit", "transform", "transform">>
    /\ scaler_smiles.calls = <<"fit", "transform", "transform">>
    /\ \E i \in DOMAIN test_smiles_encoded : \E j \in DOMAIN test_smiles_encoded[i] :
          test_smiles_encoded[i][j].n > test_smiles_encoded[i][j].d

\* C6: the vocabulary maps 36 characters one-to-one onto 1..36, and for every
\* string no longer than the target length, decoding the encoding recovers the
\* character at every position of the string whose character is in the
\* vocabulary, and every position past the string holds 0.
C6_DecodeRecoversCharacters ==
    /\ Cardinality(DOMAIN enc) = 36
    /\ {enc[char] : char \in DOMAIN enc} = 1..36
    /\ (call.done /\ Len(call.smiles) <= call.max_len) =>
          /\ Len(call.result) >= Len(call.smiles)
          /\ \A i \in DOMAIN call.result :
                /\ (i <= Len(call.smiles) /\ call.smiles[i] \in DOMAIN enc) =>
                      decode(call.result[i]) = call.smiles[i]
                /\ i > Len(call.smiles) => call.result[i] = 0

\* C6 witness: a string shorter than the target length, with a character of the
\* vocabulary and one outside it, has been encoded.
C6_Witness ==
    /\ call.done
    /\ call.smiles = <<"N", "P">>
    /\ call.max_len = 3
    /\ call.result = <<33, 0, 0>>

\* C7: smiles_encoding returns exactly max_len integers, entry i being the
\* vocabulary integer of character i of the string (0 for a character outside the
\* vocabulary) up to the end of the string and 0 after it, a longer string being
\* cut at max_len; max_smiles_len is the longest string of the two tables, so
\* every encoded record of both tables has this one length and holds all of its
\* string.
C7_EncodingLengthAndContent ==
    /\ call.done =>
          /\ Len(call.result) = call.max_len
          /\ \A j \in 1..call.max_len : call.result[j] = Expected(call.smiles, j)
    /\ pc \in {"encode", "scale_smiles_train", "scale_smiles_test", "build"} =>
          /\ \A i \in DOMAIN train : Len(train[i]) <= max_smiles_len
          /\ \A i \in DOMAIN test : Len(test[i]) <= max_smiles_len
          /\ \/ \E i \in DOMAIN train : Len(train[i]) = max_smiles_len
             \/ \E i \in DOMAIN test : Len(test[i]) = max_smiles_len
    /\ pc \in {"scale_smiles_train", "scale_smiles_test", "build"} =>
          /\ DOMAIN train_smiles_encoded = DOMAIN train
          /\ DOMAIN test_smiles_encoded = DOMAIN test
          /\ \A i \in DOMAIN train : Len(train_smiles_encoded[i]) = max_smiles_len
          /\ \A i \in DOMAIN test : Len(test_smiles_encoded[i]) = max_smiles_len
    /\ pc = "scale_smiles_train" => train_smiles_encoded = RawEncoded(train)
    /\ pc \in {"scale_smiles_train", "scale_smiles_test"} =>
          test_smiles_encoded = RawEncoded(test)

\* C7 witness: a call has cut a string at a shorter target length, and the
\* tables, with strings of different lengths, have just been encoded.
C7_Witness ==
    /\ call.done
    /\ Len(call.smiles) > call.max_len
    /\ call.max_len >= 1
    /\ pc = "scale_smiles_train"
    /\ \E i \in DOMAIN train : Len(train[i]) < max_smiles_len

\* C8 as stated: whenever TPU initialisation fails, whatever the failure, the
\* script selects the default strategy and goes on.
C8_AnyTpuFailureFallsBack ==
    (tpu_fault # NoFault /\ pc # "strategy") => (strategy = "default" /\ pc # "aborted")

\* The descriptors in the order of the specification, by toolkit function.
DescriptorOrder ==
    << "MolWt", "MolLogP", "CalcTPSA", "NumHDonors", "NumHAcceptors",
       "NumRotatableBonds", "CalcFractionCSP3", "MinPartialCharge",
       "MaxPartialCharge", "NumValenceElectrons", "BertzCT", "HallKierAlpha",
       "BalabanJ", "qed" >>

UnparseableIn(column) == \E i \in DOMAIN column : ~Parses(column[i])

\* A row of a descriptor matrix before scaling: the 14 descriptors of the string,
\* in order.
IsDescriptorRow(row, smiles) ==
    /\ Parses(smiles)
    /\ Len(row) = 14
    /\ \A k \in 1..14 : row[k] = Descriptor(DescriptorOrder[k], MolFromSmiles(smiles))

\* C9: when a string of a table does not parse, the script aborts at that
\* table's descriptor extraction: the table's descriptor matrix is never
\* assembled, no scaler is ever fit or applied, and training is never reached;
\* a descriptor vector exists only for a string that parses, and it has exactly
\* 14 components in the fixed order.
C9_UnparseableAborts ==
    /\ (UnparseableIn(train) /\ pc \notin {"load", "rdkit_train"}) =>
          /\ pc = "aborted" /\ error = "ArgumentError"
          /\ train_rdkit_features = <<>>
    /\ (UnparseableIn(test) /\ pc \notin {"load", "rdkit_train", "rdkit_test"}) =>
          /\ pc = "aborted" /\ error = "ArgumentError"
          /\ test_rdkit_features = <<>>
    /\ (UnparseableIn(train) \/ UnparseableIn(test)) =>
          /\ scaler_rdkit = MinMaxScaler
          /\ scaler_smiles = MinMaxScaler
          /\ max_smiles_len = 0
    /\ train_rdkit_features # <<>> => DOMAIN train_rdkit_features = DOMAIN train
    /\ test_rdkit_features # <<>> => DOMAIN test_rdkit_features = DOMAIN test
    /\ \A i \in DOMAIN train_rdkit_features :
          /\ Parses(train[i])
          /\ Len(train_rdkit_features[i]) = 14
          /\ pc \in {"rdkit_test", "scale_rdkit_train", "aborted"} =>
                IsDescriptorRow(train_rdkit_features[i], train[i])
    /\ \A i \in DOMAIN test_rdkit_features :
          /\ Parses(test[i])
          /\ Len(test_rdkit_features[i]) = 14
          /\ pc \in {"scale_rdkit_train", "scale_rdkit_test"} =>
                IsDescriptorRow(test_rdkit_features[i], test[i])

\* C9 witness: a test string did not parse; the script stopped with the training
\* descriptors extracted and nothing scaled.
C9_Witness ==
    /\ pc = "aborted"
    /\ error = "ArgumentError"
    /\ UnparseableIn(test)
    /\ train_rdkit_features # <<>>
    /\ test_rdkit_features = <<>>
    /\ scaler_rdkit = MinMaxScaler

\* C10 as stated: every value handed to the embedding layer, for every train and
\* test record, is an integer of 0..36 and is the vocabulary integer of the
\* character at that position of the record (0 at padded or unmapped positions).
C10_EmbeddingInputsAreVocabularyIndices ==
    pc = "build" =>
       /\ \A i \in DOMAIN train : \A j \in 1..max_smiles_len :
             /\ train_smiles_encoded[i][j].n =
                   Expected(train[i], j) * train_smiles_encoded[i][j].d
             /\ Expected(train[i], j) \in 0..36
       /\ \A i \in DOMAIN test : \A j \in 1..max_smiles_len :
             /\ test_smiles_encoded[i][j].n =
                   Expected(test[i], j) * test_smiles_encoded[i][j].d
             /\ Expected(test[i], j) \in 0..36


=============================================================================
